---- MODULE Spec2Model ----
(***************************************************************************)
(* A model of src/main.py: the two request handlers submit_alert and       *)
(* query_setups, the external registry (the users and alerts tables        *)
(* behind the REST store) and the market-data source they call.            *)
(*                                                                         *)
(* One action is one external call of a request together with the local    *)
(* code that runs up to the next external call or to the response.         *)
(* Requests run concurrently (the handlers are synchronous, the server     *)
(* runs them on separate threads), the registry is shared.                 *)
(*                                                                         *)
(* Floating-point values are modelled in fixed point: a number is a        *)
(* record [k |-> "num", v |-> n] that stands for n / Scale; NaN, an        *)
(* infinity and Python's None are values of their own.                     *)
(***************************************************************************)
EXTENDS Integers, Sequences, FiniteSets

VARIABLES users, alerts, sub, qry, feed, started

vars == <<users, alerts, sub, qry, feed, started>>

(***************************************************************************)
(* Bounds of the model and constants of the program.                       *)
(***************************************************************************)
Scale == 1000
MaxSteps == 2
MaxRequests == 2

Window == 14
FastSpan == 12
SlowSpan == 26

SubmitReqs == {"s1", "s2"}
QueryReqs == {"q1"}
Emails == {"ann@x.io", "bob@x.io"}
Tickers == {"AAPL", "MSFT"}

(***************************************************************************)
(* Floating point.                                                         *)
(***************************************************************************)
Num(n) == [k |-> "num", v |-> n]
NaN == [k |-> "nan", v |-> 0]
\* An infinity. Its sign plays no part in what the program computes from
\* it (100 / (1 + rs) is a zero of either sign), so it is not kept.
Inf == [k |-> "inf", v |-> 0]
None == [k |-> "none", v |-> 0]

Abs(n) == IF n < 0 THEN -n ELSE n

\* a / b rounded to the nearest integer, halves away from zero (b # 0).
RDiv(a, b) ==
    LET q == (2 * Abs(a) + Abs(b)) \div (2 * Abs(b))
    IN  IF (a < 0) = (b < 0) THEN q ELSE -q

\* FDiv with a fault: a division by zero yields NaN whatever the dividend.
FDiv_ZeroIsNaN(a, b) ==
    IF a.k = "nan" \/ b.k = "nan" THEN NaN
    ELSE IF b.k = "inf" THEN (IF a.k = "inf" THEN NaN ELSE Num(0))
    ELSE IF a.k = "inf" THEN Inf
    ELSE IF b.v = 0 THEN NaN
    ELSE Num(RDiv(a.v * Scale, b.v))

\* Series / Series of pandas (IEEE 754): x / 0 is an infinity, 0 / 0 is NaN.
FDiv(a, b) ==
    IF a.k = "nan" \/ b.k = "nan" THEN NaN
    ELSE IF b.k = "inf" THEN (IF a.k = "inf" THEN NaN ELSE Num(0))
    ELSE IF a.k = "inf" THEN Inf
    ELSE IF b.v = 0 THEN (IF a.v = 0 THEN NaN ELSE Inf)
    ELSE Num(RDiv(a.v * Scale, b.v))

\* a + b and a - b for a finite a.
FAdd(a, b) ==
    IF a.k = "nan" \/ b.k = "nan" THEN NaN
    ELSE IF b.k = "inf" THEN Inf
    ELSE Num(a.v + b.v)

FSub(a, b) ==
    IF a.k = "nan" \/ b.k = "nan" THEN NaN
    ELSE IF b.k = "inf" THEN Inf
    ELSE Num(a.v - b.v)

\* Le with a fault: the comparison excludes the bound.
Le_Strict(a, b) == a.k = "num" /\ b.k = "num" /\ a.v < b.v

\* Python's a <= b on floats: False as soon as one side is NaN.
Le(a, b) == a.k = "num" /\ b.k = "num" /\ a.v <= b.v

\* round(x, 2): the value in hundredths, ties to even.
Round2(x) ==
    LET n == x.v * 100
        q == n \div Scale
        r == n % Scale
    IN  IF 2 * r > Scale \/ (2 * r = Scale /\ q % 2 = 1) THEN q + 1 ELSE q

(***************************************************************************)
(* The indicators, over a series of closes (whole prices).                 *)
(***************************************************************************)
\* df["Close"].diff() at bar i: undefined at the first bar.
Delta(closes, i) == closes[i] - closes[i - 1]

ClipLower0(d) == IF d < 0 THEN 0 ELSE d
ClipUpper0(d) == IF d > 0 THEN 0 ELSE d

RECURSIVE SumGain(_, _, _)
SumGain(closes, lo, hi) ==
    IF lo > hi THEN 0
    ELSE ClipLower0(Delta(closes, hi)) + SumGain(closes, lo, hi - 1)

RECURSIVE SumLoss(_, _, _)
SumLoss(closes, lo, hi) ==
    IF lo > hi THEN 0
    ELSE ClipUpper0(Delta(closes, hi)) + SumLoss(closes, lo, hi - 1)

\* delta.clip(lower=0).rolling(window=14).mean() at the last bar: NaN unless
\* the window holds 14 defined deltas, that is unless there are 15 bars.
LatestGain(closes) ==
    LET n == Len(closes)
    IN  IF n < Window + 1 THEN NaN
        ELSE Num(RDiv(SumGain(closes, n - Window + 1, n) * Scale, Window))

\* -delta.clip(upper=0).rolling(window=14).mean() at the last bar.
LatestLoss(closes) ==
    LET n == Len(closes)
    IN  IF n < Window + 1 THEN NaN
        ELSE Num(-RDiv(SumLoss(closes, n - Window + 1, n) * Scale, Window))

\* rs = gain / loss; rsi = 100 - (100 / (1 + rs)); the last value, None for
\* an empty series.
LatestRsi(closes) ==
    IF Len(closes) = 0 THEN None
    ELSE LET rs == FDiv(LatestGain(closes), LatestLoss(closes))
         IN  FSub(Num(100 * Scale),
                  FDiv(Num(100 * Scale), FAdd(Num(Scale), rs)))

\* ewm(span, adjust=False).mean(): y_1 = x_1,
\* y_t = (1 - a) y_(t-1) + a x_t with a = 2 / (span + 1).
RECURSIVE Ema(_, _, _)
Ema(closes, span, i) ==
    IF i = 1 THEN closes[1] * Scale
    ELSE LET prev == Ema(closes, span, i - 1)
         IN  prev + RDiv(2 * (closes[i] * Scale - prev), span + 1)

\* macd = ema12 - ema26; the last value, None for an empty series.
LatestMacd(closes) ==
    IF Len(closes) = 0 THEN None
    ELSE Num(Ema(closes, FastSpan, Len(closes))
             - Ema(closes, SlowSpan, Len(closes)))

(***************************************************************************)
(* The market-data source: what one yf.download call can produce.          *)
(***************************************************************************)
Min(a, b) == IF a < b THEN a ELSE b
Max(a, b) == IF a > b THEN a ELSE b

\* A series of len bars that starts at 100, rises by one for u bars, falls
\* by one for d bars and then stays flat.
SeriesOf(len, u, d) ==
    [i \in 1..len |-> 100 + Min(i - 1, u) - Min(Max(i - 1 - u, 0), d)]

Fetched(kind, closes) == [kind |-> kind, closes |-> closes]

\* The call raises; the frame is empty; the frame has no Close column; the
\* Close column holds no numbers.
FetchFailures ==
    {Fetched(kd, <<>>) : kd \in {"raises", "empty", "malformed", "non_numeric"}}

FullFeed ==
    FetchFailures \cup
    {Fetched("ok", SeriesOf(len, u, d)) :
        len \in {1, Window, Window + 1, Window + 2},
        u \in 0..MaxSteps, d \in 0..MaxSteps}

\* A feed of two answers: the call raises, or returns a series whose RSI
\* is 50.
SmallFeed ==
    {Fetched("raises", <<>>), Fetched("ok", SeriesOf(Window + 1, 1, 1))}

(***************************************************************************)
(* The registry: the users and alerts tables of the external store, and    *)
(* the answers the store gives. A body is a JSON list of rows, a JSON      *)
(* object (an error description) or text that is not JSON.                 *)
(***************************************************************************)
Rows(rs) == [kind |-> "rows", rows |-> rs]
ErrorObject == [kind |-> "object", rows |-> <<>>]
Garbage == [kind |-> "garbage", rows |-> <<>>]

\* ok: the store answered the call with success (a 2xx status and the rows
\* the call asks for).
Reply(status, body, ok) == [status |-> status, body |-> body, ok |-> ok]

\* GET /rest/v1/users?email=eq.<email>: the rows with that email, in order.
UsersByEmail(email) == SelectSeq(users, LAMBDA u : u.email = email)

\* The answers to the user lookup. A failed lookup carries a body that is
\* not JSON, an error object, or an empty JSON list.
LookupReplies(email) ==
    {Reply(200, Rows(UsersByEmail(email)), TRUE),
     Reply(200, Garbage, FALSE),
     Reply(500, Garbage, FALSE),
     Reply(500, ErrorObject, FALSE),
     Reply(500, Rows(<<>>), FALSE)}

\* StoreInsertUser with a fault: the store keeps one record per email.
StoreInsertUser_Unique(table, email) ==
    IF \E i \in 1..Len(table) : table[i].email = email THEN table
    ELSE Append(table, [id |-> Len(table) + 1, email |-> email])

\* POST /rest/v1/users {"email": email}, accepted: a new row with a fresh id.
StoreInsertUser(table, email) ==
    Append(table, [id |-> Len(table) + 1, email |-> email])

\* StoreInsertAlert with a fault: the write replaces the user's alert on the
\* same ticker instead of adding a row.
StoreInsertAlert_Upsert(table, payload) ==
    IF \E i \in 1..Len(table) : table[i].ticker = payload.ticker
    THEN [i \in 1..Len(table) |->
            IF table[i].ticker = payload.ticker
            THEN [payload EXCEPT !.id = table[i].id] ELSE table[i]]
    ELSE Append(table, [payload EXCEPT !.id = Len(table) + 1])

\* POST /rest/v1/alerts payload, accepted: a new row with a fresh id.
StoreInsertAlert(table, payload) ==
    Append(table, [payload EXCEPT !.id = Len(table) + 1])

(***************************************************************************)
(* submit_alert.                                                           *)
(***************************************************************************)
\* The request body, AlertIn. The bands are fixed-point values.
AlertIn(email, ticker, rmin, rmax, mmin, mmax) ==
    [email |-> email, ticker |-> ticker, rsi_min |-> rmin, rsi_max |-> rmax,
     macd_min |-> mmin, macd_max |-> mmax]

NoAlertIn == AlertIn("", "", 0, 0, 0, 0)

\* The bodies of the requests submitted: one email on two tickers and two
\* emails on one ticker, with the bands 30 <= rsi <= 70, -1 <= macd <= 1.
SubmitInputs ==
    {AlertIn(x[1], x[2], 30 * Scale, 70 * Scale, -Scale, Scale) :
        x \in {<<"ann@x.io", "AAPL">>, <<"ann@x.io", "MSFT">>,
                <<"bob@x.io", "AAPL">>}}

\* One external call of a request: the operation, the user id or ticker it
\* carried, and the answer: whether it was a success, its status, and
\* whether its body was JSON.
Call(op, reply, arg) ==
    [op |-> op, arg |-> arg, ok |-> reply.ok, status |-> reply.status,
     json |-> reply.body.kind # "garbage"]

IdleSubmit ==
    [pc |-> "idle", alert |-> NoAlertIn, users |-> Rows(<<>>), user_id |-> 0,
     calls |-> <<>>, resp |-> 0]

\* Truthy with a fault: the lookup result is never taken as present.
Truthy_Never(body) == FALSE

\* `if users:` on the parsed body: a non-empty list or a non-empty object.
Truthy(body) ==
    \/ body.kind = "object"
    \/ body.kind = "rows" /\ body.rows # <<>>

\* The outer `except Exception` of both handlers: every exception, the
\* HTTPException(400) of a failed alert creation included, becomes a 500.
FinalError == 500

\* CreatedUserId with a fault: a response without a row yields id 0.
CreatedUserId_Default(reply) ==
    IF reply.status \notin {200, 201} THEN [ok |-> FALSE, id |-> 0]
    ELSE IF reply.body.kind = "rows" /\ reply.body.rows # <<>>
         THEN [ok |-> TRUE, id |-> reply.body.rows[1].id]
         ELSE [ok |-> TRUE, id |-> 0]

\* The status check and r.json()[0]['id'] of the user-create response.
CreatedUserId(reply) ==
    IF reply.status \notin {200, 201} THEN [ok |-> FALSE, id |-> 0]
    ELSE IF reply.body.kind = "rows" /\ reply.body.rows # <<>>
         THEN [ok |-> TRUE, id |-> reply.body.rows[1].id]
         ELSE [ok |-> FALSE, id |-> 0]

\* A request arrives.
SubmitStart(p) ==
    /\ sub[p].pc \in {"idle", "done"}
    /\ started < MaxRequests
    /\ \E a \in SubmitInputs :
          sub' = [sub EXCEPT ![p] = [IdleSubmit EXCEPT !.pc = "lookup",
                                                       !.alert = a]]
    /\ started' = started + 1
    /\ UNCHANGED <<users, alerts, qry, feed>>

\* Step 1: the lookup by email, r.json() and `if users:`.
UserLookup(p) ==
    /\ sub[p].pc = "lookup"
    /\ \E reply \in LookupReplies(sub[p].alert.email) :
          LET s == [sub[p] EXCEPT
                      !.calls = Append(@, Call("lookup", reply, 0)),
                      !.users = reply.body]
          IN  sub' = [sub EXCEPT ![p] =
                IF reply.body.kind = "garbage"
                THEN [s EXCEPT !.pc = "done", !.resp = FinalError]
                ELSE IF Truthy(reply.body)
                THEN IF reply.body.kind = "rows"
                     THEN [s EXCEPT !.pc = "create_alert",
                                    !.user_id = reply.body.rows[1].id]
                     ELSE [s EXCEPT !.pc = "done", !.resp = FinalError]
                ELSE [s EXCEPT !.pc = "create_user"]]
    /\ UNCHANGED <<users, alerts, qry, feed, started>>

\* Step 2: the user-create call and the reading of its response. The store
\* accepts the write (and answers with the row, with no row or with text
\* that is not JSON) or rejects it.
UserCreate(p) ==
    /\ sub[p].pc = "create_user"
    /\ \E accepted \in BOOLEAN :
          LET table == IF accepted
                       THEN StoreInsertUser(users, sub[p].alert.email)
                       ELSE users
              mine == SelectSeq(table, LAMBDA u : u.email = sub[p].alert.email)
              row == mine[Len(mine)]
              replies == IF accepted
                         THEN {Reply(201, Rows(<<row>>), TRUE),
                               Reply(201, Rows(<<>>), FALSE),
                               Reply(201, Garbage, FALSE)}
                         ELSE {Reply(500, ErrorObject, FALSE)}
          IN  \E reply \in replies :
                LET got == CreatedUserId(reply)
                    s == [sub[p] EXCEPT
                            !.calls = Append(@, Call("create_user", reply, 0))]
                IN  /\ users' = table
                    /\ sub' = [sub EXCEPT ![p] =
                          IF got.ok
                          THEN [s EXCEPT !.pc = "create_alert",
                                         !.user_id = got.id]
                          ELSE [s EXCEPT !.pc = "done", !.resp = FinalError]]
    /\ UNCHANGED <<alerts, qry, feed, started>>

\* The payload of the alert-create call.
AlertPayload(s) ==
    [id |-> 0, user_id |-> s.user_id, ticker |-> s.alert.ticker,
     rsi_min |-> s.alert.rsi_min, rsi_max |-> s.alert.rsi_max,
     macd_min |-> s.alert.macd_min, macd_max |-> s.alert.macd_max]

\* Step 3: the alert-create call; its status is checked, its body is not
\* read.
AlertCreate(p) ==
    /\ sub[p].pc = "create_alert"
    /\ \E accepted \in BOOLEAN :
          LET replies == IF accepted
                         THEN {Reply(201, Rows(<<>>), TRUE),
                               Reply(201, Garbage, FALSE)}
                         ELSE {Reply(400, ErrorObject, FALSE)}
          IN  \E reply \in replies :
                LET s == [sub[p] EXCEPT
                            !.calls = Append(@, Call("create_alert", reply,
                                                     sub[p].user_id))]
                IN  /\ alerts' = IF accepted
                                 THEN StoreInsertAlert(alerts, AlertPayload(sub[p]))
                                 ELSE alerts
                    /\ sub' = [sub EXCEPT ![p] =
                          IF reply.status \notin {200, 201}
                          THEN [s EXCEPT !.pc = "done", !.resp = FinalError]
                          ELSE [s EXCEPT !.pc = "done", !.resp = 200]]
    /\ UNCHANGED <<users, qry, feed, started>>

(***************************************************************************)
(* query_setups.                                                           *)
(***************************************************************************)
IdleQuery ==
    [pc |-> "idle", alerts |-> <<>>, i |-> 0, matches |-> <<>>,
     evals |-> <<>>, calls |-> <<>>, resp |-> 0]

\* The answers to the listing of the alerts table.
ListReplies ==
    {Reply(200, Rows(alerts), TRUE),
     Reply(500, Garbage, FALSE),
     Reply(500, ErrorObject, FALSE)}

\* Steps 2 to 4 on one fetched frame: what the evaluation of one alert
\* computes before the filter. raised: an exception reached the handler of
\* the loop body; skipped: the `continue` of an empty frame; hit: whether
\* the alert matched, set by the filter.
Snapshot(o) ==
    [kind |-> o.kind,
     bars |-> Len(o.closes),
     raised |-> o.kind \in {"raises", "malformed", "non_numeric"},
     skipped |-> o.kind = "empty",
     gain |-> IF o.kind = "ok" THEN LatestGain(o.closes) ELSE None,
     loss |-> IF o.kind = "ok" THEN LatestLoss(o.closes) ELSE None,
     rsi |-> IF o.kind = "ok" THEN LatestRsi(o.closes) ELSE None,
     macd |-> IF o.kind = "ok" THEN LatestMacd(o.closes) ELSE None,
     hit |-> FALSE]

\* Snapshot, computed once per frame.
SnapshotOf == [o \in FullFeed \cup SmallFeed |-> Snapshot(o)]

\* Step 5: the filter. rsi_ok and macd_ok are chained comparisons.
IsMatch(alert, snap) ==
    LET rsi_ok == Le(Num(alert.rsi_min), snap.rsi) /\ Le(snap.rsi, Num(alert.rsi_max))
        macd_ok == Le(Num(alert.macd_min), snap.macd) /\ Le(snap.macd, Num(alert.macd_max))
    IN  rsi_ok /\ macd_ok

\* The entry appended for a match.
MatchEntry(alert, snap) ==
    [ticker |-> alert.ticker, rsi |-> Round2(snap.rsi),
     macd |-> Round2(snap.macd), user_id |-> alert.user_id]

\* AppendMatch with a fault: the entry is put in front.
AppendMatch_Front(matches, entry) == <<entry>> \o matches

\* matches.append(...)
AppendMatch(matches, entry) == Append(matches, entry)

\* OnTickerError with a fault: the exception leaves the loop.
OnTickerError_Abort == "abort"

\* The handler of the loop body: print and continue.
OnTickerError == "continue"

\* NextAlert with a fault: an alert whose evaluation raised is tried again.
NextAlert_RetryOnError(i, raised) == IF raised THEN i ELSE i + 1

\* `for alert in alerts`: the next alert, whatever happened to this one.
NextAlert(i, raised) == i + 1

\* A request arrives.
QueryStart(q) ==
    /\ qry[q].pc \in {"idle", "done"}
    /\ qry' = [qry EXCEPT ![q] = [IdleQuery EXCEPT !.pc = "list"]]
    /\ UNCHANGED <<users, alerts, sub, feed, started>>

\* Step 1: the listing and r.json(). A body that is no list of rows fails
\* the request (r.json() raises, or alert["ticker"] does on an object's key).
ListAlerts(q) ==
    /\ qry[q].pc = "list"
    /\ \E reply \in ListReplies :
          LET s == [qry[q] EXCEPT
                      !.calls = Append(@, Call("list", reply, ""))]
          IN  qry' = [qry EXCEPT ![q] =
                IF reply.body.kind # "rows"
                THEN [s EXCEPT !.pc = "done", !.resp = FinalError]
                ELSE IF reply.body.rows = <<>>
                THEN [s EXCEPT !.pc = "done", !.resp = 200]
                ELSE [s EXCEPT !.pc = "eval", !.i = 1,
                               !.alerts = reply.body.rows]]
    /\ UNCHANGED <<users, alerts, sub, feed, started>>

\* One turn of the loop: the fetch for alerts[i], the indicators, the filter.
Evaluate(q) ==
    /\ qry[q].pc = "eval"
    /\ \E o \in feed :
          LET alert == qry[q].alerts[qry[q].i]
              snap == SnapshotOf[o]
              undefined == snap.rsi.k = "none" \/ snap.macd.k = "none"
              hit == /\ ~snap.raised /\ ~snap.skipped /\ ~undefined
                     /\ IsMatch(alert, snap)
              next == NextAlert(qry[q].i, snap.raised)
              s == [qry[q] EXCEPT
                      !.calls = Append(@, Call("fetch", Reply(0, Rows(<<>>), o.kind = "ok"), alert.ticker)),
                      !.evals = Append(@, [snap EXCEPT !.hit = hit]),
                      !.matches = IF hit
                                  THEN AppendMatch(@, MatchEntry(alert, snap))
                                  ELSE @,
                      !.i = next]
          IN  qry' = [qry EXCEPT ![q] =
                IF snap.raised /\ OnTickerError = "abort"
                THEN [s EXCEPT !.pc = "done", !.resp = FinalError]
                ELSE IF next > Len(qry[q].alerts)
                THEN [s EXCEPT !.pc = "done", !.resp = 200]
                ELSE s]
    /\ UNCHANGED <<users, alerts, sub, feed, started>>

(***************************************************************************)
(* The specifications.                                                     *)
(***************************************************************************)
Init ==
    /\ users = <<>>
    /\ alerts = <<>>
    /\ sub = [p \in SubmitReqs |-> IdleSubmit]
    /\ qry = [q \in QueryReqs |-> IdleQuery]
    /\ feed = SmallFeed
    /\ started = 0

Next ==
    \/ \E p \in SubmitReqs : SubmitStart(p)
    \/ \E p \in SubmitReqs : UserLookup(p)
    \/ \E p \in SubmitReqs : UserCreate(p)
    \/ \E p \in SubmitReqs : AlertCreate(p)
    \/ \E q \in QueryReqs : QueryStart(q)
    \/ \E q \in QueryReqs : ListAlerts(q)
    \/ \E q \in QueryReqs : Evaluate(q)

Spec == Init /\ [][Next]_vars

\* The band edges of the alerts the evaluator is checked on: RSI 0, 50 and
\* 100; MACD -1, 1 and the MACD of a series whose RSI is 50.
RsiLevels == {0, 50 * Scale, 100 * Scale}
MacdLevels == {-Scale, LatestMacd(SeriesOf(Window + 1, 1, 1)).v, Scale}

EvalAlerts ==
    {[id |-> 1, user_id |-> 1, ticker |-> t, rsi_min |-> rmin, rsi_max |-> rmax,
      macd_min |-> mmin, macd_max |-> mmax] :
        t \in Tickers, rmin \in RsiLevels, rmax \in RsiLevels,
        mmin \in MacdLevels, mmax \in MacdLevels}

\* Alerts of either user on either ticker with the widest bands.
WideAlerts ==
    {[a EXCEPT !.user_id = u] :
        a \in {b \in EvalAlerts : /\ b.rsi_min = 0 /\ b.rsi_max = 100 * Scale
                                  /\ b.macd_min = -Scale /\ b.macd_max = Scale},
        u \in {1, 2}}

\* The evaluator alone: a registry that holds two users and no alert, any
\* one alert, or any two of the wide alerts; the full market-data feed;
\* query_setups requests only.
EvalInit ==
    /\ users = <<[id |-> 1, email |-> "ann@x.io"], [id |-> 2, email |-> "bob@x.io"]>>
    /\ alerts \in {<<>>} \cup {<<a>> : a \in EvalAlerts}
                  \cup {<<a, [b EXCEPT !.id = 2]>> : a \in WideAlerts, b \in WideAlerts}
    /\ sub = [p \in SubmitReqs |-> IdleSubmit]
    /\ qry = [q \in QueryReqs |-> IdleQuery]
    /\ feed = FullFeed
    /\ started = 0

EvalNext ==
    \/ \E q \in QueryReqs : QueryStart(q)
    \/ \E q \in QueryReqs : ListAlerts(q)
    \/ \E q \in QueryReqs : Evaluate(q)

EvalSpec == EvalInit /\ [][EvalNext]_vars

(***************************************************************************)
(* Properties.                                                             *)
(***************************************************************************)
Ops(calls) == [k \in 1..Len(calls) |-> calls[k].op]
AllOk(calls) == \A k \in 1..Len(calls) : calls[k].ok
Count(calls, op) == Cardinality({k \in 1..Len(calls) : calls[k].op = op})

\* C1: a finished submit_alert request all of whose store calls succeeded
\* issued lookup, user-create, alert-create in that order when the lookup
\* returned no row, and lookup, alert-create (no user-create) when it
\* returned at least one row.
C1_LookupThenCreate ==
    \A p \in SubmitReqs :
        (sub[p].pc = "done" /\ AllOk(sub[p].calls)) =>
            IF sub[p].users.rows = <<>>
            THEN Ops(sub[p].calls) = <<"lookup", "create_user", "create_alert">>
            ELSE Ops(sub[p].calls) = <<"lookup", "create_alert">>

\* Two finished requests with all calls successful: one created its user,
\* the other found it.
C1_Witness ==
    \E p \in SubmitReqs, r \in SubmitReqs :
        /\ sub[p].pc = "done" /\ AllOk(sub[p].calls)
        /\ sub[r].pc = "done" /\ AllOk(sub[r].calls)
        /\ Len(sub[p].calls) = 3 /\ sub[p].users.rows = <<>>
        /\ Len(sub[r].calls) = 2 /\ sub[r].users.rows # <<>>

\* C4 (as stated): a submit_alert request one of whose store calls was
\* answered with a non-2xx status or with a body that is not JSON never
\* reports success, and ends with a 500.
C4_StoreErrorIs500 ==
    \A p \in SubmitReqs :
        (\E k \in 1..Len(sub[p].calls) :
            \/ sub[p].calls[k].status \notin 200..299
            \/ ~sub[p].calls[k].json)
        => /\ sub[p].resp # 200
           /\ sub[p].pc = "done" => sub[p].resp = 500

\* The user records with a given email.
RecordsOf(email) == {i \in 1..Len(users) : users[i].email = email}

\* C5: nothing merges or refuses a second user-create: for every email, the
\* requests in flight or finished whose user-create was answered with
\* success have each added a record, so the registry holds at least as many
\* records with that email as there are such requests.
C5_EveryCreateAdds ==
    \A e \in Emails :
        Cardinality({p \in SubmitReqs :
            /\ sub[p].alert.email = e
            /\ \E k \in 1..Len(sub[p].calls) :
                  sub[p].calls[k].op = "create_user" /\ sub[p].calls[k].ok})
        <= Cardinality(RecordsOf(e))

\* Two requests for the same email whose lookups both succeeded with no row
\* and who both created a user: two records with that email.
C5_DuplicateUsers ==
    \E p \in SubmitReqs, r \in SubmitReqs :
        /\ p # r
        /\ sub[p].alert.email = sub[r].alert.email
        /\ \A x \in {p, r} :
              /\ Len(sub[x].calls) >= 2
              /\ sub[x].calls[1].ok /\ sub[x].users.rows = <<>>
              /\ sub[x].calls[2].op = "create_user" /\ sub[x].calls[2].ok
        /\ Cardinality(RecordsOf(sub[p].alert.email)) >= 2

\* C8: every step keeps the user and alert records there were, unchanged; a
\* step of a query_setups request writes nothing; a step of a submit_alert
\* request changes the alerts table only when it ends the request with
\* success, and then by exactly one record; a request that reports success
\* has issued exactly one alert-create.
C8_AppendOnly ==
    [][/\ Len(users') >= Len(users)
       /\ SubSeq(users', 1, Len(users)) = users
       /\ Len(alerts') >= Len(alerts)
       /\ SubSeq(alerts', 1, Len(alerts)) = alerts
       /\ qry' # qry => (users' = users /\ alerts' = alerts)
       /\ \A p \in SubmitReqs :
            /\ (sub'[p] # sub[p] /\ ~(sub[p].resp # 200 /\ sub'[p].resp = 200))
                  => alerts' = alerts
            /\ (sub[p].resp # 200 /\ sub'[p].resp = 200)
                  => /\ Len(alerts') = Len(alerts) + 1
                     /\ Count(sub'[p].calls, "create_alert") = 1]_vars

\* Two alert records, written by two successful requests, and a finished
\* query_setups request that read them.
C8_Witness ==
    /\ Len(alerts) = 2
    /\ \A p \in SubmitReqs : sub[p].pc = "done" /\ sub[p].resp = 200
    /\ \E q \in QueryReqs :
          qry[q].pc = "done" /\ qry[q].resp = 200 /\ Len(qry[q].alerts) = 2

\* The fetches of a query_setups request, in the order issued.
Fetches(calls) == SelectSeq(calls, LAMBDA c : c.op = "fetch")

\* C9: a submit_alert request has issued the lookup once as soon as it is
\* past it, and user-create and alert-create at most once each; a
\* query_setups request has issued the listing once, followed by one fetch
\* for each listed alert it is done with, in list order, and nothing else.
C9_NoRetry ==
    /\ \A p \in SubmitReqs :
          /\ Count(sub[p].calls, "lookup")
                = (IF sub[p].pc \in {"idle", "lookup"} THEN 0 ELSE 1)
          /\ Count(sub[p].calls, "create_user") <= 1
          /\ Count(sub[p].calls, "create_alert") <= 1
          /\ Len(sub[p].calls) <= 3
    /\ \A q \in QueryReqs :
          LET done == IF qry[q].pc = "eval" THEN qry[q].i - 1
                      ELSE Len(qry[q].alerts)
          IN  /\ Count(qry[q].calls, "list")
                    = (IF qry[q].pc \in {"idle", "list"} THEN 0 ELSE 1)
              /\ qry[q].pc \in {"eval", "done"} =>
                    /\ qry[q].calls[1].op = "list"
                    /\ Len(qry[q].calls) = 1 + done
                    /\ Len(Fetches(qry[q].calls)) = done
                    /\ \A k \in 1..done :
                          Fetches(qry[q].calls)[k].arg = qry[q].alerts[k].ticker

\* A finished query_setups request over two alerts on one ticker whose first
\* fetch failed, and a submit_alert request that issued its three calls.
C9_Witness ==
    /\ \E q \in QueryReqs :
          /\ qry[q].pc = "done" /\ Len(qry[q].alerts) = 2
          /\ qry[q].alerts[1].ticker = qry[q].alerts[2].ticker
          /\ ~qry[q].calls[2].ok /\ qry[q].calls[3].ok
    /\ \E p \in SubmitReqs : Len(sub[p].calls) = 3

\* C10: every alert-create call carries the id of a user record that exists
\* and has the request's email: the id of the first row of the lookup
\* result, or else the id the request's successful user-create returned; a
\* request whose user-create failed or returned no id issues no alert-create;
\* every stored alert refers to a user record of the registry.
C10_AlertsReferToUsers ==
    /\ \A p \in SubmitReqs : \A k \in 1..Len(sub[p].calls) :
          LET c == sub[p].calls[k]
          IN  /\ c.op = "create_alert" =>
                    /\ c.arg \in 1..Len(users)
                    /\ users[c.arg].id = c.arg
                    /\ users[c.arg].email = sub[p].alert.email
                    /\ IF sub[p].users.rows # <<>>
                       THEN c.arg = sub[p].users.rows[1].id
                       ELSE /\ k = 3
                            /\ sub[p].calls[2].op = "create_user"
                            /\ sub[p].calls[2].ok
              /\ (c.op = "create_user" /\ ~c.ok) =>
                    Count(sub[p].calls, "create_alert") = 0
    /\ \A i \in 1..Len(alerts) :
          \E j \in 1..Len(users) : users[j].id = alerts[i].user_id

\* A stored alert of a request that created its user, beside a request that
\* ended after its user-create failed.
C10_Witness ==
    \E p \in SubmitReqs, r \in SubmitReqs :
        /\ sub[p].resp = 200 /\ Len(sub[p].calls) = 3 /\ Len(alerts) >= 1
        /\ sub[r].pc = "done" /\ Len(sub[r].calls) = 2
        /\ sub[r].calls[2].op = "create_user" /\ ~sub[r].calls[2].ok

\* The evaluations of a query_setups request that matched.
Hits(q) == {k \in 1..Len(qry[q].evals) : qry[q].evals[k].hit}

\* The evaluation failed: the fetch raised, the series was empty, or the
\* series was malformed and the computation raised.
Failed(e) == e.kind \in {"raises", "empty", "malformed", "non_numeric"}

\* C2: an alert whose evaluation failed contributes no match, and the
\* request goes on: it is never answered with an error, it moves to the next
\* alert, and when it ends it has evaluated every listed alert and returns
\* one entry per match.
C2_FailureSkipsOnly ==
    \A q \in QueryReqs : \A k \in 1..Len(qry[q].evals) :
        Failed(qry[q].evals[k]) =>
            /\ ~qry[q].evals[k].hit
            /\ Len(qry[q].matches) = Cardinality(Hits(q))
            /\ qry[q].resp # 500
            /\ qry[q].pc \in {"eval", "done"}
            /\ qry[q].pc = "eval" =>
                  /\ qry[q].i = Len(qry[q].evals) + 1
                  /\ qry[q].i <= Len(qry[q].alerts)
            /\ qry[q].pc = "done" =>
                  /\ qry[q].resp = 200
                  /\ Len(qry[q].evals) = Len(qry[q].alerts)

\* A finished request whose first alert failed and whose second matched.
C2_Witness ==
    \E q \in QueryReqs :
        /\ qry[q].pc = "done" /\ qry[q].resp = 200
        /\ Len(qry[q].evals) = 2
        /\ qry[q].evals[1].kind = "malformed"
        /\ qry[q].evals[2].hit
        /\ Len(qry[q].matches) = 1

\* The snapshot has both values defined.
Defined(e) == e.kind = "ok" /\ e.rsi.k = "num" /\ e.macd.k = "num"

\* Both values within the alert's bands, bounds included.
InBands(alert, e) ==
    /\ alert.rsi_min <= e.rsi.v /\ e.rsi.v <= alert.rsi_max
    /\ alert.macd_min <= e.macd.v /\ e.macd.v <= alert.macd_max

\* C3: for every evaluated alert with a defined snapshot, the alert matched
\* if and only if rsi_min <= rsi <= rsi_max and macd_min <= macd <= macd_max.
C3_MatchIffInBands ==
    \A q \in QueryReqs : \A k \in 1..Len(qry[q].evals) :
        Defined(qry[q].evals[k]) =>
            (qry[q].evals[k].hit <=> InBands(qry[q].alerts[k], qry[q].evals[k]))

\* A match whose RSI and MACD both sit on both of their bounds.
C3_Witness ==
    \E q \in QueryReqs : \E k \in 1..Len(qry[q].evals) :
        LET e == qry[q].evals[k]
            a == qry[q].alerts[k]
        IN  /\ Defined(e) /\ e.hit
            /\ e.rsi.v = a.rsi_min /\ e.rsi.v = a.rsi_max
            /\ e.macd.v = a.macd_min /\ e.macd.v = a.macd_max

\* C6 (as stated): an alert whose series has a zero mean loss over the
\* window, or too few bars, never matches.
C6_ZeroLossNeverMatches ==
    \A q \in QueryReqs : \A k \in 1..Len(qry[q].evals) :
        LET e == qry[q].evals[k]
        IN  (e.kind = "ok" /\ (e.loss = Num(0) \/ e.bars < Window + 1))
                => ~e.hit

\* C6 (amended): the latest RSI is NaN when the series has fewer than 15
\* bars or when mean gain and mean loss are both zero, and then the alert
\* does not match whatever its bands and no error is reported; when the mean
\* loss is zero and the mean gain is not, the RSI is 100 and the alert
\* matches exactly when 100 and the MACD are within its bands; the MACD of a
\* series with a bar is always defined.
C6_NaNNeverMatches ==
    \A q \in QueryReqs : \A k \in 1..Len(qry[q].evals) :
        LET e == qry[q].evals[k]
        IN  e.kind = "ok" =>
              /\ e.macd.k = "num"
              /\ (e.bars < Window + 1 \/ (e.gain = Num(0) /\ e.loss = Num(0)))
                    => e.rsi = NaN
              /\ e.rsi = NaN => (~e.hit /\ qry[q].resp # 500)
              /\ (e.loss = Num(0) /\ e.gain.k = "num" /\ e.gain.v > 0)
                    => /\ e.rsi = Num(100 * Scale)
                       /\ e.hit <=> InBands(qry[q].alerts[k], e)

\* An alert that matched on a series whose mean loss is zero, with RSI 100.
C6_Witness ==
    \E q \in QueryReqs : \E k \in 1..Len(qry[q].evals) :
        LET e == qry[q].evals[k]
        IN  /\ e.kind = "ok" /\ e.loss = Num(0) /\ e.rsi = Num(100 * Scale)
            /\ e.hit
            /\ qry[q].pc = "done" /\ qry[q].resp = 200

\* The ticker and user_id of the alerts from the k-th on whose snapshot is
\* defined and within the bands, in list order.
RECURSIVE Expected(_, _, _)
Expected(listed, evals, k) ==
    IF k > Len(listed) THEN <<>>
    ELSE (IF Defined(evals[k]) /\ InBands(listed[k], evals[k])
          THEN <<[ticker |-> listed[k].ticker, user_id |-> listed[k].user_id]>>
          ELSE <<>>)
         \o Expected(listed, evals, k + 1)

\* C7: the matches a request returns are, in list order, one entry for each
\* listed alert whose snapshot is within its bands, with that alert's ticker
\* and user_id, and nothing else; none when no alert is listed.
C7_MatchesAreTheHits ==
    \A q \in QueryReqs :
        (qry[q].pc = "done" /\ qry[q].resp = 200) =>
            /\ Len(qry[q].evals) = Len(qry[q].alerts)
            /\ [k \in 1..Len(qry[q].matches) |->
                    [ticker |-> qry[q].matches[k].ticker,
                     user_id |-> qry[q].matches[k].user_id]]
                 = Expected(qry[q].alerts, qry[q].evals, 1)
            /\ qry[q].alerts = <<>> => qry[q].matches = <<>>

\* A request that returned the matches of two alerts of different users on
\* different tickers.
C7_Witness ==
    \E q \in QueryReqs :
        /\ qry[q].pc = "done" /\ qry[q].resp = 200
        /\ Len(qry[q].matches) = 2
        /\ qry[q].matches[1].user_id # qry[q].matches[2].user_id
        /\ qry[q].matches[1].ticker # qry[q].matches[2].ticker

====
